---- MODULE Spec2Model ----
(***************************************************************************)
(* Model of the IP threat dashboard: the feed fetcher with its fallback    *)
(* chain (services/googleSheetService.ts) and the refresh controller of    *)
(* the IPDashboard component (components/IPDashboard.tsx).                 *)
(*                                                                         *)
(* Text is a sequence of one-character strings, so that split, trim,       *)
(* parseCSVLine and parseInt are computed character by character.          *)
(***************************************************************************)
EXTENDS Integers, Sequences, FiniteSets, TLC

(***************************************************************************)
(* Bounds of the model.                                                    *)
(***************************************************************************)
\* fetch cycles started in one behaviour (the mount cycle included)
MaxCycles == 2

(***************************************************************************)
(* Program constants.                                                      *)
(***************************************************************************)
\* googleSheetService.ts:33  csvText.length < 10
MinBodyLength == 10
\* googleSheetService.ts:40  lines.length < 2
MinLines == 2
\* googleSheetService.ts:49  values.length < 11
MinFields == 11
\* googleSheetService.ts:6-10  the ordered transport strategies
PROXY_URLS == <<"relay", "alternate", "direct">>

(***************************************************************************)
(* Text helpers: String.prototype.trim, split('\n'), toLowerCase, includes *)
(***************************************************************************)
IsSpace(ch) == ch \in {" ", "\t", "\r", "\n"}

RECURSIVE TrimLeft(_)
TrimLeft(s) ==
  IF s = <<>> THEN <<>>
  ELSE IF IsSpace(Head(s)) THEN TrimLeft(Tail(s)) ELSE s

RECURSIVE TrimRight(_)
TrimRight(s) ==
  IF s = <<>> THEN <<>>
  ELSE IF IsSpace(s[Len(s)]) THEN TrimRight(SubSeq(s, 1, Len(s) - 1)) ELSE s

Trim(s) == TrimRight(TrimLeft(s))

\* csvText.split('\n'): the pieces between line feeds, empty pieces included
\* (computed from the positions of the line feeds)
SplitLines(s) ==
  LET breaks == {i \in 1..Len(s) : s[i] = "\n"}
      n == Cardinality(breaks) + 1
      BreakAt(k) ==
        IF k = 0 THEN 0
        ELSE IF k = n THEN Len(s) + 1
        ELSE CHOOSE p \in breaks : Cardinality({q \in breaks : q < p}) = k - 1
  IN  [k \in 1..n |-> SubSeq(s, BreakAt(k - 1) + 1, BreakAt(k) - 1)]

UpperCase == <<"A","B","C","D","E","F","G","H","I","J","K","L","M",
               "N","O","P","Q","R","S","T","U","V","W","X","Y","Z">>
LowerCase == <<"a","b","c","d","e","f","g","h","i","j","k","l","m",
               "n","o","p","q","r","s","t","u","v","w","x","y","z">>

\* the lower-case letter of each upper-case letter, computed once
LowerOf ==
  [ch \in {UpperCase[i] : i \in 1..Len(UpperCase)} |->
     LowerCase[CHOOSE i \in 1..Len(UpperCase) : UpperCase[i] = ch]]

LowerChar(ch) == IF ch \in DOMAIN LowerOf THEN LowerOf[ch] ELSE ch

ToLowerCase(s) == [i \in 1..Len(s) |-> LowerChar(s[i])]

\* String.prototype.includes
Includes(s, sub) ==
  \E i \in 0..(Len(s) - Len(sub)) : SubSeq(s, i + 1, i + Len(sub)) = sub

(***************************************************************************)
(* parseCSVLine (googleSheetService.ts:84-104)                             *)
(***************************************************************************)
\* st = [result, current, inQuotes] after the characters before position i
RECURSIVE ScanLine(_, _, _)
ScanLine(line, i, st) ==
  IF i > Len(line) THEN st
  ELSE LET char == line[i] IN
       IF char = "\""
       THEN ScanLine(line, i + 1, [st EXCEPT !.inQuotes = ~st.inQuotes])
       ELSE IF char = "," /\ ~st.inQuotes
       THEN ScanLine(line, i + 1,
                     [st EXCEPT !.result = Append(st.result, Trim(st.current)),
                                !.current = <<>>])
       ELSE ScanLine(line, i + 1, [st EXCEPT !.current = Append(st.current, char)])

\* the last field is returned as scanned
parseCSVLineUntrimmed(line) ==
  LET st == ScanLine(line, 1, [result |-> <<>>, current |-> <<>>, inQuotes |-> FALSE])
  IN  Append(st.result, st.current)

parseCSVLine(line) ==
  LET st == ScanLine(line, 1, [result |-> <<>>, current |-> <<>>, inQuotes |-> FALSE])
  IN  Append(st.result, Trim(st.current))

(***************************************************************************)
(* parseInt(v) || 0 (googleSheetService.ts:56,57,60)                       *)
(***************************************************************************)
Digits == <<"0","1","2","3","4","5","6","7","8","9">>
IsDigit(ch) == \E d \in 1..10 : Digits[d] = ch
DigitVal(ch) == (CHOOSE d \in 1..10 : Digits[d] = ch) - 1

\* value of the longest prefix of digits; none is NaN, which "|| 0" turns into 0
RECURSIVE DigitsValue(_, _)
DigitsValue(s, acc) ==
  IF s = <<>> \/ ~IsDigit(Head(s)) THEN acc
  ELSE DigitsValue(Tail(s), 10 * acc + DigitVal(Head(s)))

ParseIntOr0(v) ==
  LET t == TrimLeft(v)
      neg == t # <<>> /\ Head(t) = "-"
      u == IF t # <<>> /\ Head(t) \in {"-", "+"} THEN Tail(t) ELSE t
  IN  IF neg THEN 0 - DigitsValue(u, 0) ELSE DigitsValue(u, 0)

\* values[k] || dflt, k counted from 0; a missing index is undefined
FieldOr(values, k, dflt) ==
  IF k + 1 <= Len(values) /\ values[k + 1] # <<>> THEN values[k + 1] ELSE dflt

Dash == <<"-">>

\* the activity kind is read from column 7
MakeItemShifted(values) ==
  [IP |-> FieldOr(values, 0, <<>>),
   Country |-> FieldOr(values, 1, <<>>),
   ISP |-> FieldOr(values, 2, <<>>),
   Domain |-> FieldOr(values, 3, <<>>),
   AbuseConfidenceScore |-> ParseIntOr0(FieldOr(values, 4, <<>>)),
   TotalReports |-> ParseIntOr0(FieldOr(values, 5, <<>>)),
   LastReportedAt |-> FieldOr(values, 6, <<>>),
   JenisAktivitas |-> FieldOr(values, 7, <<>>),
   Count |-> ParseIntOr0(FieldOr(values, 9, <<>>)),
   Action |-> FieldOr(values, 10, <<>>),
   UsageType |-> FieldOr(values, 11, Dash),
   ASN |-> FieldOr(values, 12, Dash),
   City |-> FieldOr(values, 13, Dash)]

\* googleSheetService.ts:51-65
MakeItem(values) ==
  [IP |-> FieldOr(values, 0, <<>>),
   Country |-> FieldOr(values, 1, <<>>),
   ISP |-> FieldOr(values, 2, <<>>),
   Domain |-> FieldOr(values, 3, <<>>),
   AbuseConfidenceScore |-> ParseIntOr0(FieldOr(values, 4, <<>>)),
   TotalReports |-> ParseIntOr0(FieldOr(values, 5, <<>>)),
   LastReportedAt |-> FieldOr(values, 6, <<>>),
   JenisAktivitas |-> FieldOr(values, 8, <<>>),
   Count |-> ParseIntOr0(FieldOr(values, 9, <<>>)),
   Action |-> FieldOr(values, 10, <<>>),
   UsageType |-> FieldOr(values, 11, Dash),
   ASN |-> FieldOr(values, 12, Dash),
   City |-> FieldOr(values, 13, Dash)]

\* googleSheetService.ts:39  csvText.split('\n').filter(line => line.trim())
NonBlank(line) == Trim(line) # <<>>
RetainedLines(csvText) == SelectSeq(SplitLines(csvText), NonBlank)

\* googleSheetService.ts:44-68  the loop from i = 1 over the retained lines
RECURSIVE ParseRows(_, _)
ParseRows(lines, i) ==
  IF i > Len(lines) THEN <<>>
  ELSE LET values == parseCSVLine(lines[i]) IN
       IF Len(values) < MinFields THEN ParseRows(lines, i + 1)
       ELSE <<MakeItem(values)>> \o ParseRows(lines, i + 1)

\* the first retained line is parsed as a row too
ParseBodyFromFirst(csvText) == ParseRows(RetainedLines(csvText), 1)

\* googleSheetService.ts:39-71  i = 1 is the second retained line
ParseBody(csvText) == ParseRows(RetainedLines(csvText), 2)

(***************************************************************************)
(* The view projection of the filter effect (IPDashboard.tsx:187-208)      *)
(***************************************************************************)
Filters == {"all", "blocked", "alerted"}

\* the characters of a category token, to compare with Action.toLowerCase()
FilterText(f) ==
  IF f = "blocked" THEN <<"b","l","o","c","k","e","d">>
  ELSE IF f = "alerted" THEN <<"a","l","e","r","t","e","d">>
  ELSE <<"a","l","l">>

\* the IP is compared without regard to case as well
MatchesSearchFolded(item, q) ==
  \/ Includes(ToLowerCase(item.IP), ToLowerCase(q))
  \/ Includes(ToLowerCase(item.ISP), ToLowerCase(q))
  \/ Includes(ToLowerCase(item.Domain), ToLowerCase(q))

\* IPDashboard.tsx:193-196  the predicate of the search filter
MatchesSearch(item, q) ==
  \/ Includes(item.IP, q)
  \/ Includes(ToLowerCase(item.ISP), ToLowerCase(q))
  \/ Includes(ToLowerCase(item.Domain), ToLowerCase(q))

MatchesFilter(item, f) == ToLowerCase(item.Action) = FilterText(f)

Project(d, q, f) ==
  LET BySearch(item) == MatchesSearch(item, q)
      ByAction(item) == MatchesFilter(item, f)
      searched == IF q # <<>> THEN SelectSeq(d, BySearch) ELSE d
  IN  IF f # "all" THEN SelectSeq(searched, ByAction) ELSE searched

(***************************************************************************)
(* Values derived from the snapshot at each render                         *)
(* (IPDashboard.tsx:29-33, 210-215)                                        *)
(***************************************************************************)
\* IPDashboard.tsx:214  d.AbuseConfidenceScore >= 75
HighRiskScore == 75
\* IPDashboard.tsx:30  d.AbuseConfidenceScore > 75
ExportScore == 75

Blocked == <<"b","l","o","c","k","e","d">>
Alerted == <<"a","l","e","r","t","e","d">>

\* IPDashboard.tsx:210-215  the stats object computed from d
StatsOf(d) ==
  LET IsBlocked(item) == ToLowerCase(item.Action) = Blocked
      IsAlerted(item) == ToLowerCase(item.Action) = Alerted
      IsHighRisk(item) == item.AbuseConfidenceScore >= HighRiskScore
  IN  [total |-> Len(d),
       blocked |-> Len(SelectSeq(d, IsBlocked)),
       alerted |-> Len(SelectSeq(d, IsAlerted)),
       highRisk |-> Len(SelectSeq(d, IsHighRisk))]

\* the score 75 is eligible too
highRiskIPsInclusive(d) ==
  LET Eligible(item) == item.AbuseConfidenceScore >= ExportScore
  IN  SelectSeq(d, Eligible)

\* IPDashboard.tsx:30  data.filter((d) => d.AbuseConfidenceScore > 75)
highRiskIPs(d) ==
  LET Eligible(item) == item.AbuseConfidenceScore > ExportScore
  IN  SelectSeq(d, Eligible)

\* Array.prototype.findIndex for "t.IP === ip", counted from 1 (0: not found)
FindIndexIP(self, ip) ==
  IF \E i \in 1..Len(self) : self[i].IP = ip
  THEN CHOOSE i \in 1..Len(self) :
         /\ self[i].IP = ip
         /\ \A j \in 1..(i - 1) : self[j].IP # ip
  ELSE 0

\* Array.prototype.filter with a predicate on the index
RECURSIVE KeepFirstOfIP(_, _)
KeepFirstOfIP(self, index) ==
  IF index > Len(self) THEN <<>>
  ELSE IF FindIndexIP(self, self[index].IP) = index
  THEN <<self[index]>> \o KeepFirstOfIP(self, index + 1)
  ELSE KeepFirstOfIP(self, index + 1)

\* every eligible record is a target
uniqueHighRiskIPsAll(d) == highRiskIPs(d)

\* IPDashboard.tsx:31-33  highRiskIPs.filter((item, index, self) =>
\*                          self.findIndex((t) => t.IP === item.IP) === index)
uniqueHighRiskIPs(d) == KeepFirstOfIP(highRiskIPs(d), 1)

(***************************************************************************)
(* Responses of the remote resource used as inputs.                        *)
(***************************************************************************)
Comma == <<",">>
LF == <<"\n">>

RECURSIVE CsvRow(_)
CsvRow(fields) ==
  IF Len(fields) = 0 THEN <<>>
  ELSE IF Len(fields) = 1 THEN fields[1]
  ELSE fields[1] \o Comma \o CsvRow(Tail(fields))

HeaderLine == <<"I","P",",","C","o","u","n","t","r","y",",","I","S","P">>

\* 14 fields, score 80, Action "Blocked"
RowA ==
  CsvRow(<< <<"1",".","1">>, <<"I","D">>, <<"B","l","o","x">>, <<"a",".","i","o">>,
            <<"8","0">>, <<"5">>, <<"d">>, <<>>, <<"s","c","a","n">>, <<"3">>,
            <<"B","l","o","c","k","e","d">>, <<"I","S","P">>, <<"A","S","1">>,
            <<"S","b","y">> >>)

\* exactly 11 fields, score 75, a non-numeric report count, Action "alerted"
RowB1 ==
  CsvRow(<< <<"2",".","2">>, <<>>, <<"N","e","t">>, <<"b",".","i","d">>,
            <<"7","5">>, <<"x">>, <<"d">>, <<>>, <<>>, <<>>,
            <<"a","l","e","r","t","e","d">> >>)

\* 3 fields: below the minimum, dropped by the parser
RowShort == CsvRow(<< <<"9",".","9">>, <<"I","D">>, <<"x">> >>)

\* 12 fields, a quoted field holding a comma, score 76, the IP of RowA again
RowB2 ==
  CsvRow(<< <<"1",".","1">>, <<"I","D">>, <<"\"","A","c",","," ","I","\"">>,
            <<"c",".","i","d">>, <<" ","7","6">>, <<"2">>, <<"d">>, <<>>,
            <<"s","s","h">>, <<"1">>, <<"b","l","o","c","k","e","d">>,
            <<"D","C">> >>)

BodyA == HeaderLine \o LF \o RowA \o LF
BodyB == HeaderLine \o LF \o RowB1 \o LF \o <<" ">> \o LF \o RowShort \o LF \o RowB2
\* a header line and no data row
BodyHeaderOnly == HeaderLine \o LF
\* two lines, one character fewer than MinBodyLength
BodyShort == <<"I","P",",","C","\n","a","b",",","c">>

\* the awaited fetch rejects (network error, CORS refusal)
Rejected == [rejected |-> TRUE, status |-> 0, body |-> <<>>]
Http(status, body) == [rejected |-> FALSE, status |-> status, body |-> body]
\* Response.ok
IsOk(resp) == resp.status >= 200 /\ resp.status <= 299

\* the responses a request can settle with, by name
ResponseIds == {"rejected", "http500", "short", "headerOnly", "bodyA", "bodyB"}

ResponseOf(id) ==
  CASE id = "rejected" -> Rejected
    [] id = "http500" -> Http(500, BodyA)
    [] id = "short" -> Http(200, BodyShort)
    [] id = "headerOnly" -> Http(200, BodyHeaderOnly)
    [] id = "bodyA" -> Http(200, BodyA)
    [] id = "bodyB" -> Http(200, BodyB)
    [] OTHER -> Http(0, <<>>)

(***************************************************************************)
(* One iteration of the strategy loop of fetchIPData                       *)
(* (googleSheetService.ts:15-78)                                           *)
(***************************************************************************)
NoError == "null"
ErrNetwork == "TypeError: Failed to fetch"
ErrHttp == "HTTP error! status"
ErrEmpty == "Empty or invalid response"
ErrNoData == "Not enough data lines"
ErrGeneric == "Failed to fetch data"

Return(d) == [ok |-> TRUE, data |-> d, error |-> NoError]
Throw(e) == [ok |-> FALSE, data |-> <<>>, error |-> e]

\* googleSheetService.ts:27  if (!response.ok) throw
StatusOk(resp) == IsOk(resp)

\* the threshold is one character too low
PlausibleBodyLoose(csvText) == ~(csvText = <<>> \/ Len(csvText) < MinBodyLength - 1)

\* googleSheetService.ts:33  if (!csvText || csvText.length < 10) throw
PlausibleBody(csvText) == ~(csvText = <<>> \/ Len(csvText) < MinBodyLength)

\* the line count is not checked
EnoughLinesUnchecked(csvText) == TRUE

\* googleSheetService.ts:40  if (lines.length < 2) throw
EnoughLines(csvText) == ~(Len(RetainedLines(csvText)) < MinLines)

\* the body of the try block for one response: a value returned or an error thrown
TryStrategy(resp) ==
  IF resp.rejected THEN Throw(ErrNetwork)
  ELSE IF ~StatusOk(resp) THEN Throw(ErrHttp)
  ELSE IF ~PlausibleBody(resp.body) THEN Throw(ErrEmpty)
  ELSE IF ~EnoughLines(resp.body) THEN Throw(ErrNoData)
  ELSE Return(ParseBody(resp.body))

\* the first error is kept
RecordErrorFirst(lastError, e) == IF lastError = NoError THEN e ELSE lastError

\* googleSheetService.ts:75  lastError = error as Error
RecordError(lastError, e) == e

\* the same strategy is requested again
NextIndexRetry(idx) == idx

\* googleSheetService.ts:15,76  the for..of loop moves on to the next strategy
NextIndex(idx) == idx + 1

\* TryStrategy on each of the responses above, computed once
Settled == [id \in ResponseIds |-> TryStrategy(ResponseOf(id))]

\* googleSheetService.ts:81  throw lastError || new Error('Failed to fetch data')
FinalError(lastError) == IF lastError # NoError THEN lastError ELSE ErrGeneric

(***************************************************************************)
(* A fetch cycle: one call of loadData and the fetchIPData call it awaits. *)
(*   pc        "idle" (not started), "fetch" (awaiting the response of     *)
(*             strategy idx), "returned" (fetchIPData has settled, the     *)
(*             continuation of loadData has not run yet), "done"           *)
(*   lastError the local of fetchIPData                                    *)
(*   result    what fetchIPData settled with                               *)
(*   log, resp the attempts made so far and the most recent response: they *)
(*             record what happened, the program does not read them        *)
(***************************************************************************)
NoDate == 0
NoResponse == "none"

IdleCycle ==
  [kind |-> "none", showLoading |-> FALSE, pc |-> "idle", idx |-> 0,
   lastError |-> NoError, result |-> Throw(NoError),
   log |-> <<>>, resp |-> NoResponse]

Attempt(idx) == [strategy |-> PROXY_URLS[idx], outcome |-> "pending"]

\* googleSheetService.ts:13-20  lastError = null, the first strategy is requested
NewCycle(kind, showLoading) ==
  [IdleCycle EXCEPT !.kind = kind, !.showLoading = showLoading, !.pc = "fetch",
                    !.idx = 1, !.log = <<Attempt(1)>>]

SetLast(log, outcome) == [log EXCEPT ![Len(log)].outcome = outcome]

\* googleSheetService.ts:16-81  the awaited request of strategy idx settles with the
\* response named resp
AfterResponse(cy, resp) ==
  LET r == Settled[resp]
      err == RecordError(cy.lastError, r.error)
      next == NextIndex(cy.idx)
  IN  IF r.ok
      THEN [cy EXCEPT !.pc = "returned", !.result = r, !.resp = resp,
                      !.log = SetLast(cy.log, "ok")]
      ELSE IF next <= Len(PROXY_URLS)
      THEN [cy EXCEPT !.idx = next, !.lastError = err, !.resp = resp,
                      !.log = Append(SetLast(cy.log, "failed"), Attempt(next))]
      ELSE [cy EXCEPT !.pc = "returned", !.lastError = err, !.resp = resp,
                      !.result = Throw(FinalError(err)),
                      !.log = SetLast(cy.log, "failed")]

(***************************************************************************)
(* State of the IPDashboard component (IPDashboard.tsx:17-27) and of its   *)
(* effects.                                                                *)
(***************************************************************************)
VARIABLES
  data,            \* useState<IPData[]>([])
  filteredData,    \* useState<IPData[]>([])
  loading,         \* useState(true)
  error,           \* useState<string | null>(null)
  searchQuery,     \* useState("")
  filter,          \* useState("all")
  autoRefresh,     \* useState(true)
  lastUpdated,     \* useState<Date | null>(null)
  mounted,         \* the mount effects have run
  interval,        \* the setInterval timer of the auto-refresh effect is registered
  effectPending,   \* a render has committed whose filter effect has not run yet
  cycles,          \* the fetch cycles, in the order they were started
  started,         \* number of cycles started
  clock,           \* what new Date() returns at the next completion
  lastDone,        \* the cycle that completed most recently (0: none yet)
  cardRefs,        \* the IPs whose entry of cardRefs.current has a mounted card
  downloading,     \* useState(false)
  generatingPPT,   \* useState(false)
  download,        \* the running call of handleDownloadAll
  ppt,             \* the running call of handleGeneratePPT
  scan,            \* a call of parseCSVLine: its argument and what it returned
  parse            \* the parse of one response body: the text and the outcome

exportVars == <<downloading, generatingPPT, download, ppt>>
parserVars == <<scan, parse>>

vars == <<data, filteredData, loading, error, searchQuery, filter, autoRefresh,
          lastUpdated, mounted, interval, effectPending, cycles, started, clock,
          lastDone, cardRefs, exportVars, parserVars>>

CycleIds == 1..MaxCycles
LoadErrorMessage == "Failed to load data from Google Sheet"
Queries == {<<>>, <<"b","l","o">>}

\* the aggregates are computed from the records on screen
statsOverFiltered == StatsOf(filteredData)

\* IPDashboard.tsx:210-215  const stats = {...}, computed from data at each render
stats == StatsOf(data)

\* no export has run yet
NoExport ==
  [pc |-> "idle", targets |-> <<>>, k |-> 0, emitted |-> 0, outcome |-> "none"]
\* parseCSVLine has not been called
NoScan == [pc |-> "none", line |-> <<>>, values |-> <<>>]
\* no response body has been handed to the parser
\* (src: the lines the text was written from; the program does not read it)
NoParse ==
  [pc |-> "none", csvText |-> <<>>, result |-> Throw(NoError), src |-> <<>>]

\* IPDashboard.tsx:217-230, 335-351  the cards on screen: none in the error view
\* and none while the skeletons are shown
Cards(fd, ld, err) == IF ld \/ err # NoError THEN <<>> ELSE fd

\* IPDashboard.tsx:348  ref={item.AbuseConfidenceScore > 75 ? getCardRef(item.IP) : undefined}
HasRef(cards, i) == i <= Len(cards) /\ cards[i].AbuseConfidenceScore > ExportScore

\* IPDashboard.tsx:346  key={`${item.IP}-${index}`}: the card at position i is
\* kept, with the same ref object, when the IP at i is the same and both carry a ref
SameRef(old, new, i) ==
  /\ HasRef(old, i) /\ HasRef(new, i)
  /\ old[i].IP = new[i].IP

\* IPDashboard.tsx:148-154, 343-351  a commit that replaces the cards old by new:
\* the refs of the cards removed are set to null, then the refs of the cards
\* added are set to their element; one ref object is shared by the cards of an IP
CommitRefs(refs, old, new) ==
  LET detached == {old[i].IP : i \in {j \in 1..Len(old) : HasRef(old, j) /\ ~SameRef(old, new, j)}}
      attached == {new[i].IP : i \in {j \in 1..Len(new) : HasRef(new, j) /\ ~SameRef(old, new, j)}}
  IN  (refs \ detached) \cup attached

\* the refs after the render that follows the step
Rerender ==
  cardRefs' = CommitRefs(cardRefs, Cards(filteredData, loading, error),
                         Cards(filteredData', loading', error'))

InitController ==
  /\ data = <<>>
  /\ filteredData = <<>>
  /\ loading = TRUE
  /\ error = NoError
  /\ searchQuery = <<>>
  /\ filter = "all"
  /\ autoRefresh = TRUE
  /\ lastUpdated = NoDate
  /\ mounted = FALSE
  /\ interval = FALSE
  /\ effectPending = FALSE
  /\ cycles = [c \in CycleIds |-> IdleCycle]
  /\ started = 0
  /\ clock = 1
  /\ lastDone = 0
  /\ cardRefs = {}

InitExports ==
  /\ downloading = FALSE
  /\ generatingPPT = FALSE
  /\ download = NoExport
  /\ ppt = NoExport

Init ==
  /\ InitController
  /\ InitExports
  /\ scan = NoScan
  /\ parse = NoParse

\* IPDashboard.tsx:157  if (showLoading) setLoading(true)
LoadingAtStart(showLoading, old) == IF showLoading THEN TRUE ELSE old
\* the flag is cleared whatever showLoading is
LoadingAtEndAlways(showLoading, old) == FALSE

\* the flag is never cleared
LoadingAtEndNever(showLoading, old) == old

\* IPDashboard.tsx:167  finally { if (showLoading) setLoading(false) }
LoadingAtEnd(showLoading, old) == IF showLoading THEN FALSE ELSE old
\* IPDashboard.tsx:158  setError(null)
ErrorAtStart(old) == NoError
\* IPDashboard.tsx:165  setError("Failed to load data from Google Sheet")
ErrorAtFailure(old) == LoadErrorMessage
\* IPDashboard.tsx:161-163 leave error alone
ErrorAtSuccess(old) == old

\* IPDashboard.tsx:156-160  loadData up to its await
LoadData(kind, showLoading) ==
  /\ started < MaxCycles
  /\ loading' = LoadingAtStart(showLoading, loading)
  /\ error' = ErrorAtStart(error)
  /\ cycles' = [cycles EXCEPT ![started + 1] = NewCycle(kind, showLoading)]
  /\ started' = started + 1

\* the timer is never cleared
IntervalRegisteredAlways(enabled) == TRUE

\* IPDashboard.tsx:178-184  the auto-refresh effect after its cleanup has run
IntervalRegistered(enabled) == enabled

\* IPDashboard.tsx:172-174, 177-185, 187-208  the effects of the first render
Mount ==
  /\ ~mounted
  /\ mounted' = TRUE
  /\ LoadData("mount", TRUE)
  /\ interval' = IntervalRegistered(autoRefresh)
  /\ filteredData' = Project(data, searchQuery, filter)
  /\ UNCHANGED <<lastDone, data, searchQuery, filter, autoRefresh, lastUpdated,
                 effectPending, clock>>
  /\ Rerender
  /\ UNCHANGED <<exportVars, parserVars>>

\* A new task (a click, a timer tick, a response) runs only when the previous
\* one is over: the continuation of loadData is a microtask of the task in
\* which fetchIPData settled, and a pending filter effect is flushed before
\* the next update is processed.
Settling == \E c \in CycleIds : cycles[c].pc = "returned"
TaskMayRun == mounted /\ ~effectPending /\ ~Settling

\* the main view is rendered: the early return of the error view is not taken
MainView == TaskMayRun /\ error = NoError

\* IPDashboard.tsx:321  onClick={() => loadData()} disabled={loading}
ManualRefresh ==
  /\ MainView
  /\ ~loading
  /\ LoadData("manual", TRUE)
  /\ UNCHANGED <<lastDone, data, filteredData, searchQuery, filter, autoRefresh,
                 lastUpdated, mounted, interval, effectPending, clock>>
  /\ Rerender
  /\ UNCHANGED <<exportVars, parserVars>>

\* IPDashboard.tsx:217-230  onClick={loadData}: the click event is showLoading
Retry ==
  /\ TaskMayRun /\ error # NoError
  /\ LoadData("retry", TRUE)
  /\ UNCHANGED <<lastDone, data, filteredData, searchQuery, filter, autoRefresh,
                 lastUpdated, mounted, interval, effectPending, clock>>
  /\ Rerender
  /\ UNCHANGED <<exportVars, parserVars>>

\* IPDashboard.tsx:180-182  the timer fires: loadData(false)
PeriodicTick ==
  /\ TaskMayRun /\ interval
  /\ LoadData("periodic", FALSE)
  /\ UNCHANGED <<lastDone, data, filteredData, searchQuery, filter, autoRefresh,
                 lastUpdated, mounted, interval, effectPending, clock>>
  /\ Rerender
  /\ UNCHANGED <<exportVars, parserVars>>

\* IPDashboard.tsx:313-320 and the effect of 177-185 rerun for the new flag
ToggleAutoRefresh ==
  /\ MainView
  /\ autoRefresh' = ~autoRefresh
  /\ interval' = IntervalRegistered(autoRefresh')
  /\ UNCHANGED <<lastDone, data, filteredData, loading, error, searchQuery, filter,
                 lastUpdated, mounted, effectPending, cycles, started, clock>>
  /\ Rerender
  /\ UNCHANGED <<exportVars, parserVars>>

\* IPDashboard.tsx:269  onChange={(e) => setSearchQuery(e.target.value)}
SetSearchQuery(q) ==
  /\ MainView
  /\ q # searchQuery
  /\ searchQuery' = q
  /\ effectPending' = TRUE
  /\ UNCHANGED <<lastDone, data, filteredData, loading, error, filter, autoRefresh,
                 lastUpdated, mounted, interval, cycles, started, clock>>
  /\ Rerender
  /\ UNCHANGED <<exportVars, parserVars>>

\* IPDashboard.tsx:277,284,291  onClick={() => setFilter(...)}
SetFilter(f) ==
  /\ MainView
  /\ f # filter
  /\ filter' = f
  /\ effectPending' = TRUE
  /\ UNCHANGED <<lastDone, data, filteredData, loading, error, searchQuery, autoRefresh,
                 lastUpdated, mounted, interval, cycles, started, clock>>
  /\ Rerender
  /\ UNCHANGED <<exportVars, parserVars>>

\* IPDashboard.tsx:187-208  the filter effect, run after the render that
\* changed searchQuery, filter or data and before any later update
FilterEffect ==
  /\ effectPending
  /\ filteredData' = Project(data, searchQuery, filter)
  /\ effectPending' = FALSE
  /\ UNCHANGED <<lastDone, data, loading, error, searchQuery, filter, autoRefresh,
                 lastUpdated, mounted, interval, cycles, started, clock>>
  /\ Rerender
  /\ UNCHANGED <<exportVars, parserVars>>

\* googleSheetService.ts:20-81  the request of cycle c settles
Respond(c, resp) ==
  /\ TaskMayRun
  /\ cycles[c].pc = "fetch"
  /\ cycles' = [cycles EXCEPT ![c] = AfterResponse(cycles[c], resp)]
  /\ UNCHANGED <<lastDone, data, filteredData, loading, error, searchQuery, filter,
                 autoRefresh, lastUpdated, mounted, interval, effectPending,
                 started, clock>>
  /\ Rerender
  /\ UNCHANGED <<exportVars, parserVars>>

\* the records are added to the snapshot
DataAtSuccessMerged(old, result) == old \o result

\* a snapshot already published is kept
DataAtSuccessKeepFirst(old, result) == IF old = <<>> THEN result ELSE old

\* IPDashboard.tsx:161  setData(result)
DataAtSuccess(old, result) == result
\* IPDashboard.tsx:162  setFilteredData(result)
FilteredAtSuccess(old, result) == result
\* IPDashboard.tsx:163  setLastUpdated(new Date())
DateAtSuccess(old, now) == now

\* the catch branch is never taken
FulfilledAlways(result) == TRUE

\* IPDashboard.tsx:159-164  the awaited call returned (try) or threw (catch)
Fulfilled(result) == result.ok

\* the record of a cycle whose loadData call has ended: the locals of the two
\* calls are gone, the kind and the result are kept
Finished(cy) ==
  [IdleCycle EXCEPT !.kind = cy.kind, !.showLoading = cy.showLoading,
                    !.pc = "done", !.result = cy.result]

\* IPDashboard.tsx:160-168  loadData resumes after "await fetchIPData()"
Complete(c) ==
  LET cy == cycles[c] IN
  /\ cy.pc = "returned"
  /\ ~effectPending
  /\ IF Fulfilled(cy.result)
     THEN /\ data' = DataAtSuccess(data, cy.result.data)
          /\ filteredData' = FilteredAtSuccess(filteredData, cy.result.data)
          /\ lastUpdated' = DateAtSuccess(lastUpdated, clock)
          /\ error' = ErrorAtSuccess(error)
          /\ effectPending' = TRUE
     ELSE /\ error' = ErrorAtFailure(error)
          /\ UNCHANGED <<data, filteredData, lastUpdated, effectPending>>
  /\ loading' = LoadingAtEnd(cy.showLoading, loading)
  /\ cycles' = [cycles EXCEPT ![c] = Finished(cy)]
  /\ lastDone' = c
  /\ clock' = clock + 1
  /\ UNCHANGED <<searchQuery, filter, autoRefresh, mounted, interval, started>>
  /\ Rerender
  /\ UNCHANGED <<exportVars, parserVars>>

(***************************************************************************)
(* The two exports (IPDashboard.tsx:35-69, 71-146, 295-312).               *)
(*   pc       "idle", "render" (awaiting html2canvas for targets[k]),      *)
(*            "delay" (awaiting the 300 ms timer), "write" (awaiting       *)
(*            pptx.writeFile)                                              *)
(*   targets  uniqueHighRiskIPs as the handler saw it when clicked         *)
(*   emitted  files downloaded, or screenshots collected for the deck      *)
(*   outcome  of the call that ended last: "success" or "failed"           *)
(***************************************************************************)
controllerVars ==
  <<data, filteredData, loading, error, searchQuery, filter, autoRefresh,
    lastUpdated, mounted, interval, effectPending, cycles, started, clock,
    lastDone, cardRefs>>

TargetIPs(d) ==
  LET u == uniqueHighRiskIPs(d) IN [i \in 1..Len(u) |-> u[i].IP]

\* IPDashboard.tsx:45-47, 86-87  the loop from position k up to the first target
\* whose ref holds an element (0: the loop ends without another render)
NextRender(targets, k, refs) ==
  IF \E j \in k..Len(targets) : targets[j] \in refs
  THEN CHOOSE j \in k..Len(targets) :
         /\ targets[j] \in refs
         /\ \A i \in k..(j - 1) : targets[i] \notin refs
  ELSE 0

\* IPDashboard.tsx:299, 308  disabled={loading || busy || uniqueHighRiskIPs.length === 0}
ExportEnabled(busy) == ~(loading \/ busy \/ Len(uniqueHighRiskIPs(data)) = 0)

Ended(ex, outcome) == [ex EXCEPT !.pc = "idle", !.k = 0, !.outcome = outcome]

\* the loop of either export resumed at position k
Resume(ex, k, after) ==
  LET j == NextRender(ex.targets, k, cardRefs)
  IN  IF j = 0 THEN after ELSE [ex EXCEPT !.pc = "render", !.k = j]

\* IPDashboard.tsx:35-47  the click, up to the first await or, when no target
\* has a card, to the end of the handler
HandleDownloadAll ==
  /\ MainView
  /\ ExportEnabled(downloading)
  /\ LET started0 == [NoExport EXCEPT !.targets = TargetIPs(data)]
     IN  download' = Resume(started0, 1, Ended(started0, "success"))
  /\ downloading' = (download'.pc # "idle")
  /\ UNCHANGED <<controllerVars, generatingPPT, ppt, parserVars>>

\* IPDashboard.tsx:47-58  html2canvas resolves: the file is emitted and the
\* 300 ms delay is awaited
DownloadRendered ==
  /\ TaskMayRun
  /\ download.pc = "render"
  /\ download' = [download EXCEPT !.pc = "delay", !.emitted = @ + 1]
  /\ UNCHANGED <<controllerVars, downloading, generatingPPT, ppt, parserVars>>

\* IPDashboard.tsx:44-62  the delay is over: the next target with a card is
\* rendered, or the loop ends and the finally block clears the flag
DownloadDelayOver ==
  /\ TaskMayRun
  /\ download.pc = "delay"
  /\ download' = Resume(download, download.k + 1, Ended(download, "success"))
  /\ downloading' = (download'.pc # "idle")
  /\ UNCHANGED <<controllerVars, generatingPPT, ppt, parserVars>>

\* IPDashboard.tsx:63-68  html2canvas rejects: catch, then finally
DownloadFails ==
  /\ TaskMayRun
  /\ download.pc = "render"
  /\ download' = Ended(download, "failed")
  /\ downloading' = FALSE
  /\ UNCHANGED <<controllerVars, generatingPPT, ppt, parserVars>>

\* IPDashboard.tsx:96-138  the slides are built and pptx.writeFile is awaited
Writing(ex) == [ex EXCEPT !.pc = "write", !.k = 0]

\* IPDashboard.tsx:71-93  the click, up to the first await
HandleGeneratePPT ==
  /\ MainView
  /\ ExportEnabled(generatingPPT)
  /\ LET started0 == [NoExport EXCEPT !.targets = TargetIPs(data)]
     IN  ppt' = Resume(started0, 1, Writing(started0))
  /\ generatingPPT' = TRUE
  /\ UNCHANGED <<controllerVars, downloading, download, parserVars>>

\* IPDashboard.tsx:85-94  html2canvas resolves: the screenshot is pushed and
\* the capture loop goes on, or ends and the deck is written
PPTRendered ==
  /\ TaskMayRun
  /\ ppt.pc = "render"
  /\ LET shot == [ppt EXCEPT !.emitted = @ + 1]
     IN  ppt' = Resume(shot, ppt.k + 1, Writing(shot))
  /\ UNCHANGED <<controllerVars, downloading, download, generatingPPT, parserVars>>

\* IPDashboard.tsx:138-145  writeFile resolves: success, then finally
PPTWritten ==
  /\ TaskMayRun
  /\ ppt.pc = "write"
  /\ ppt' = Ended(ppt, "success")
  /\ generatingPPT' = FALSE
  /\ UNCHANGED <<controllerVars, downloading, download, parserVars>>

\* IPDashboard.tsx:140-145  html2canvas or writeFile rejects: catch, then finally
PPTFails ==
  /\ TaskMayRun
  /\ ppt.pc \in {"render", "write"}
  /\ ppt' = Ended(ppt, "failed")
  /\ generatingPPT' = FALSE
  /\ UNCHANGED <<controllerVars, downloading, download, parserVars>>

Next ==
  \/ Mount
  \/ ManualRefresh
  \/ Retry
  \/ PeriodicTick
  \/ ToggleAutoRefresh
  \/ \E q \in Queries : SetSearchQuery(q)
  \/ \E f \in Filters : SetFilter(f)
  \/ FilterEffect
  \/ \E c \in CycleIds, resp \in ResponseIds : Respond(c, resp)
  \/ \E c \in CycleIds : Complete(c)

Spec == Init /\ [][Next]_vars

(***************************************************************************)
(* Spec with the scheduling of the event loop. Every request settles       *)
(* (the assumption under which termination is stated): its task is queued  *)
(* and runs although other tasks run in between, hence strong fairness.    *)
(* The continuation of loadData is a microtask of the task in which        *)
(* fetchIPData settled, and React flushes a pending effect: both run as    *)
(* soon as they can.                                                       *)
(***************************************************************************)
LiveSpec ==
  /\ Spec
  /\ \A c \in CycleIds :
       /\ SF_vars(\E resp \in ResponseIds : Respond(c, resp))
       /\ WF_vars(Complete(c))
  /\ WF_vars(FilterEffect)

(***************************************************************************)
(* The view over a published snapshot: the filter controls and the two     *)
(* exports, started after the cycles of the behaviour have completed with  *)
(* a snapshot drawn from the records below.                                *)
(***************************************************************************)
\* records in one snapshot
MaxRecords == 2

Rec(ip, isp, domain, score, action) ==
  [IP |-> ip, Country |-> <<"I","D">>, ISP |-> isp, Domain |-> domain,
   AbuseConfidenceScore |-> score, TotalReports |-> 0, LastReportedAt |-> <<>>,
   JenisAktivitas |-> <<>>, Count |-> 0, Action |-> action,
   UsageType |-> Dash, ASN |-> Dash, City |-> Dash]

RecordPool ==
  { Rec(<<"1",".","1">>, <<"B","l","o","x">>, <<"a",".","i","o">>, 80,
        <<"B","l","o","c","k","e","d">>),
    Rec(<<"1",".","1">>, <<"N","e","t">>, <<"b","l","o",".","i","d">>, 76,
        <<"a","l","e","r","t","e","d">>),
    Rec(<<"B","l","o">>, <<"x">>, <<>>, 75, <<"A","L","E","R","T","E","D">>),
    Rec(<<"2",".","2">>, <<>>, <<>>, 90, <<"M","o","n","i","t","o","r">>),
    Rec(<<"2",".","2">>, <<"N","e","t">>, <<"b",".","i","d">>, 50,
        <<"b","l","o","c","k","e","d">>) }

Snapshots == UNION {[1..n -> RecordPool] : n \in 0..MaxRecords}

ViewQueries == Queries \cup {<<"B","l","o">>}

\* the mount cycle and the periodic cycles after it have completed, the last
\* of them with the snapshot s; the filter effect has run
ViewInit ==
  /\ \E s \in Snapshots :
       /\ data = s
       /\ filteredData = Project(s, <<>>, "all")
       /\ cycles = [c \in CycleIds |->
                      Finished([NewCycle(IF c = 1 THEN "mount" ELSE "periodic", c = 1)
                                  EXCEPT !.result = Return(s)])]
       /\ cardRefs = CommitRefs({}, <<>>, Cards(s, FALSE, NoError))
  /\ loading = FALSE
  /\ error = NoError
  /\ searchQuery = <<>>
  /\ filter = "all"
  /\ autoRefresh = TRUE
  /\ lastUpdated = MaxCycles
  /\ mounted = TRUE
  /\ interval = TRUE
  /\ effectPending = FALSE
  /\ started = MaxCycles
  /\ clock = MaxCycles + 1
  /\ lastDone = MaxCycles
  /\ InitExports
  /\ scan = NoScan
  /\ parse = NoParse

ViewNext ==
  \/ \E q \in ViewQueries : SetSearchQuery(q)
  \/ \E f \in Filters : SetFilter(f)
  \/ FilterEffect
  \/ HandleDownloadAll
  \/ DownloadRendered
  \/ DownloadDelayOver
  \/ DownloadFails
  \/ HandleGeneratePPT
  \/ PPTRendered
  \/ PPTWritten
  \/ PPTFails

ViewSpec == ViewInit /\ [][ViewNext]_vars

(***************************************************************************)
(* The parser on its own: parseCSVLine applied to every short line over a  *)
(* small alphabet, and the parse of a response body applied to every text  *)
(* written from the lines below.                                           *)
(***************************************************************************)
\* characters in a line given to parseCSVLine
MaxLineLen == 4
\* lines in a response body
MaxBodyLines == 4

LineAlphabet == {"a", ",", "\"", " "}
ScanInputs == UNION {[1..n -> LineAlphabet] : n \in 0..MaxLineLen}

BlankLine == <<" ">>
\* 11 fields, all empty but the IP
RowBare ==
  CsvRow(<< <<"3",".","3">>, <<>>, <<>>, <<>>, <<>>, <<>>, <<>>, <<>>, <<>>, <<>>, <<>> >>)
\* 14 fields, the last three empty
RowTail ==
  CsvRow(<< <<"4",".","4">>, <<"S","G">>, <<"N">>, <<"d">>, <<"9">>, <<"1","2">>,
            <<"t">>, <<"u">>, <<"k">>, <<"2">>, <<"A">>, <<>>, <<>>, <<>> >>)

LinePool == <<HeaderLine, BlankLine, RowShort, RowBare, RowA, RowB2, RowTail>>

\* the lines joined by line feeds
RECURSIVE JoinLines(_)
JoinLines(ls) ==
  IF Len(ls) = 0 THEN <<>>
  ELSE IF Len(ls) = 1 THEN ls[1]
  ELSE ls[1] \o LF \o JoinLines(Tail(ls))

BodySources ==
  UNION {[1..n -> {LinePool[i] : i \in 1..Len(LinePool)}] : n \in 1..MaxBodyLines}

ParserInit ==
  /\ InitController
  /\ InitExports
  /\ \/ /\ scan \in {[NoScan EXCEPT !.pc = "call", !.line = l] : l \in ScanInputs}
        /\ parse = NoParse
     \/ /\ scan = NoScan
        /\ parse \in {[NoParse EXCEPT !.pc = "call", !.csvText = JoinLines(ls), !.src = ls] :
                        ls \in BodySources}

\* googleSheetService.ts:48  const values = parseCSVLine(lines[i])
ParseCSVLineCall ==
  /\ scan.pc = "call"
  /\ scan' = [scan EXCEPT !.pc = "returned", !.values = parseCSVLine(scan.line)]
  /\ UNCHANGED <<controllerVars, exportVars, parse>>

\* googleSheetService.ts:31-71  a success response with the body csvText is
\* checked and parsed
ParseBodyCall ==
  /\ parse.pc = "call"
  /\ parse' = [parse EXCEPT !.pc = "returned",
                            !.result = TryStrategy(Http(200, parse.csvText))]
  /\ UNCHANGED <<controllerVars, exportVars, scan>>

ParserNext == ParseCSVLineCall \/ ParseBodyCall

ParserSpec == ParserInit /\ [][ParserNext]_vars

(***************************************************************************)
(* The controller in the error view while the mount cycle is in flight: a  *)
(* periodic cycle, started after the mount cycle, has failed on its three  *)
(* strategies before the first response of the mount cycle. The record of  *)
(* that finished cycle is not kept, so that the cycles of the behaviour    *)
(* are the mount cycle and the one started next.                           *)
(***************************************************************************)
RetryInit ==
  /\ data = <<>>
  /\ filteredData = <<>>
  /\ loading = TRUE
  /\ error = LoadErrorMessage
  /\ searchQuery = <<>>
  /\ filter = "all"
  /\ autoRefresh = TRUE
  /\ lastUpdated = NoDate
  /\ mounted = TRUE
  /\ interval = TRUE
  /\ effectPending = FALSE
  /\ cycles = [c \in CycleIds |-> IF c = 1 THEN NewCycle("mount", TRUE) ELSE IdleCycle]
  /\ started = 1
  /\ clock = 2
  /\ lastDone = 0
  /\ cardRefs = {}
  /\ InitExports
  /\ scan = NoScan
  /\ parse = NoParse

\* the manual refresh button is not on screen in the error view and is
\* disabled while loading is set: within MaxCycles it cannot be clicked here
RetryNext ==
  \/ Retry
  \/ PeriodicTick
  \/ ToggleAutoRefresh
  \/ \E q \in Queries : SetSearchQuery(q)
  \/ \E f \in Filters : SetFilter(f)
  \/ FilterEffect
  \/ \E c \in CycleIds, resp \in ResponseIds : Respond(c, resp)
  \/ \E c \in CycleIds : Complete(c)

RetrySpec == RetryInit /\ [][RetryNext]_vars

(***************************************************************************)
(* Properties                                                              *)
(***************************************************************************)
InFlight(c) == cycles[c].pc \in {"fetch", "returned"}
Done(c) == cycles[c].pc = "done"
\* the step is the continuation of loadData of cycle c
Completes(c) == cycles[c].pc = "returned" /\ cycles'[c].pc = "done"
\* the step is the start of cycle c
Starts(c) == cycles[c].pc = "idle" /\ cycles'[c].pc = "fetch"

\* the records each response parses to, computed once
Parsed == [id \in ResponseIds |-> ParseBody(ResponseOf(id).body)]

LastAttempt(cy) == cy.log[Len(cy.log)]

\* C1: within one cycle the strategies are attempted in the order relay,
\* alternate, direct; a strategy is attempted only after the one before it has
\* failed, none twice, none after a success. When the first answers HTTP 500
\* and the second a plausible body, the cycle succeeds with the records parsed
\* from that body, the third is not attempted, and (no cycle having failed)
\* the error of the controller is null.
C1_FallbackOrder ==
  /\ \A c \in CycleIds :
       LET cy == cycles[c]
           log == cy.log
       IN  /\ Len(log) <= Len(PROXY_URLS)
           /\ \A k \in 1..Len(log) : log[k].strategy = PROXY_URLS[k]
           /\ \A k \in 1..(Len(log) - 1) : log[k].outcome = "failed"
           /\ cy.pc = "fetch" => LastAttempt(cy).outcome = "pending"
           /\ (cy.pc = "returned" /\ cy.result.ok) =>
                /\ LastAttempt(cy).outcome = "ok"
                /\ cy.result.data = Parsed[cy.resp]
           /\ (cy.pc = "returned" /\ ~cy.result.ok) =>
                \A k \in 1..Len(log) : log[k].outcome = "failed"
           /\ (cy.pc = "returned" /\ cy.resp = "bodyA") =>
                /\ cy.result.ok
                /\ cy.result.data = Parsed["bodyA"]
                /\ cy.idx = Len(log)
  /\ (\A d \in CycleIds : Done(d) => cycles[d].result.ok) => error = NoError

\* the first strategy failed with HTTP 500, the second returned BodyA
C1_Witness ==
  \E c \in CycleIds :
    /\ cycles[c].pc = "returned"
    /\ cycles[c].log = <<[strategy |-> "relay", outcome |-> "failed"],
                         [strategy |-> "alternate", outcome |-> "ok"]>>
    /\ cycles[c].lastError = ErrHttp
    /\ cycles[c].result.ok
    /\ cycles[c].result.data = Parsed["bodyA"]
    /\ Len(cycles[c].result.data) = 1
    /\ error = NoError

\* C2: no step of a cycle other than a successful completion changes data,
\* filteredData or lastUpdated; a failed completion changes only error (to
\* the fixed message) and, for a loading-surfacing cycle, loading.
C2_FailedCycleFrame ==
  [][\A c \in CycleIds :
       /\ (Starts(c) \/ (cycles[c].pc = "fetch" /\ cycles'[c] # cycles[c])) =>
            /\ data' = data
            /\ filteredData' = filteredData
            /\ lastUpdated' = lastUpdated
       /\ (Completes(c) /\ ~cycles[c].result.ok) =>
            /\ data' = data
            /\ filteredData' = filteredData
            /\ lastUpdated' = lastUpdated
            /\ searchQuery' = searchQuery
            /\ filter' = filter
            /\ autoRefresh' = autoRefresh
            /\ error' = LoadErrorMessage
            /\ (~cycles[c].showLoading => loading' = loading)]_vars

\* a cycle has just failed after an earlier one published a snapshot, a
\* category filter being active
C2_Witness ==
  /\ lastDone # 0
  /\ Done(lastDone)
  /\ ~cycles[lastDone].result.ok
  /\ error = LoadErrorMessage
  /\ lastUpdated # NoDate
  /\ data = Parsed["bodyB"]
  /\ filter = "alerted"
  /\ Len(filteredData) = 1

\* C3: a cycle that completes successfully leaves the controller with that
\* cycle's records as data, lastUpdated recorded and a null error; a cycle that
\* completes with failure leaves the fixed message as error.
C3_CompletionOutcome ==
  [][\A c \in CycleIds :
       Completes(c) =>
         IF cycles[c].result.ok
         THEN /\ data' = cycles[c].result.data
              /\ lastUpdated' = clock
              /\ error' = NoError
         ELSE error' = LoadErrorMessage]_vars

\* C4: the snapshot is the result of the successful cycle that completed
\* last, whatever the order in which the cycles were started; cycles overlap.
C4_LastCompletedWins ==
  (lastDone # 0 /\ cycles[lastDone].result.ok) =>
     data = cycles[lastDone].result.data

\* two cycles overlapped and both succeeded, with different records; the one
\* started first completed last and its records are the snapshot
C4_Witness ==
  /\ Done(1) /\ Done(2)
  /\ cycles[1].result.ok /\ cycles[2].result.ok
  /\ cycles[1].result.data # cycles[2].result.data
  /\ lastDone = 1
  /\ data = cycles[1].result.data

\* C5: no step of a periodic cycle (its start, a response, its completion
\* with success or failure) changes the loading flag.
C5_PeriodicKeepsLoading ==
  [][\A c \in CycleIds :
       (cycles'[c] # cycles[c] /\ cycles'[c].kind = "periodic") =>
          loading' = loading]_vars

\* a periodic cycle has completed while the mount cycle is in flight and the
\* loading flag is set
C5_Witness ==
  \E c \in CycleIds :
    /\ cycles[c].kind = "periodic"
    /\ Done(c)
    /\ lastDone = c
    /\ loading
    /\ \E d \in CycleIds : InFlight(d) /\ cycles[d].showLoading

\* C6: a periodic cycle starts only while autoRefresh is set; toggling the
\* flag changes no other state of the controller and no cycle; the completion
\* of a cycle applies its outcome whatever the flag is.
C6_AutoRefreshToggle ==
  [][/\ \A c \in CycleIds :
          (Starts(c) /\ cycles'[c].kind = "periodic") => autoRefresh
     /\ autoRefresh' # autoRefresh =>
          /\ data' = data
          /\ filteredData' = filteredData
          /\ loading' = loading
          /\ error' = error
          /\ lastUpdated' = lastUpdated
          /\ searchQuery' = searchQuery
          /\ filter' = filter
          /\ cycles' = cycles
     /\ \A c \in CycleIds :
          (Completes(c) /\ ~autoRefresh) =>
             IF cycles[c].result.ok
             THEN /\ data' = cycles[c].result.data
                  /\ lastUpdated' = clock
             ELSE error' = LoadErrorMessage]_vars

\* a periodic cycle that was in flight when the flag was cleared has just
\* completed and published its records (the filter effect of that render is
\* still pending, so no click came after the completion)
C6_Witness ==
  \E c \in CycleIds :
    /\ cycles[c].kind = "periodic"
    /\ Done(c)
    /\ lastDone = c
    /\ effectPending
    /\ ~autoRefresh
    /\ cycles[c].result.ok
    /\ data = cycles[c].result.data
    /\ Len(data) > 0
    /\ lastUpdated = clock - 1

\* C7: the error message is never non-null while the loading flag is set.
C7_NoLoadingWithError == ~(loading /\ error # NoError)

\* responses with a success status and a body of at least 10 characters
LongEnoughIds ==
  {id \in ResponseIds :
     LET r == ResponseOf(id)
     IN  ~r.rejected /\ r.status >= 200 /\ r.status <= 299 /\ Len(r.body) >= 10}

\* those of them whose body holds a header line and nothing else
HeaderOnlyIds == {id \in LongEnoughIds : Len(RetainedLines(ResponseOf(id).body)) = 1}

\* those of them whose body holds at least two non-blank lines
TwoLineIds == {id \in LongEnoughIds : Len(RetainedLines(ResponseOf(id).body)) >= 2}

\* C8 as stated: a header-only body ends the cycle at once with the
\* insufficient-data error; the fallback chain does not advance.
C8_HeaderOnlyEndsCycle ==
  \A c \in CycleIds :
    (InFlight(c) /\ cycles[c].resp \in HeaderOnlyIds) =>
       /\ cycles[c].pc = "returned"
       /\ ~cycles[c].result.ok
       /\ cycles[c].result.error = ErrNoData

\* C8 amended: a header-only body makes its strategy fail with the error
\* "Not enough data lines", which is recorded like any strategy failure: the
\* next strategy is attempted when there is one, and fetchIPData fails with
\* that error only when the strategy was the last.
C8_HeaderOnlyFailsStrategy ==
  \A c \in CycleIds :
    LET cy == cycles[c] IN
    (InFlight(c) /\ cy.resp \in HeaderOnlyIds) =>
       /\ cy.lastError = ErrNoData
       /\ IF cy.pc = "fetch"
          THEN /\ Len(cy.log) >= 2
               /\ cy.log[Len(cy.log) - 1].outcome = "failed"
               /\ LastAttempt(cy) = Attempt(Len(cy.log))
          ELSE /\ Len(cy.log) = Len(PROXY_URLS)
               /\ LastAttempt(cy).outcome = "failed"
               /\ ~cy.result.ok
               /\ cy.result.error = ErrNoData

\* the relay answered a header-only body and the alternate proxy is now
\* awaited
C8_Witness ==
  \E c \in CycleIds :
    /\ cycles[c].pc = "fetch"
    /\ cycles[c].resp = "headerOnly"
    /\ cycles[c].resp \in HeaderOnlyIds
    /\ cycles[c].idx = 2
    /\ cycles[c].lastError = ErrNoData

\* C9: when every strategy has failed fetchIPData throws the error raised by
\* the strategy attempted last; the generic error is thrown only when no
\* error was recorded; a cycle in which a strategy succeeded surfaces no error.
C9_LastErrorSurfaced ==
  \A c \in CycleIds :
    LET cy == cycles[c] IN
    cy.pc = "returned" =>
      IF cy.result.ok
      THEN cy.result.error = NoError
      ELSE /\ Len(cy.log) = Len(PROXY_URLS)
           /\ \A k \in 1..Len(cy.log) : cy.log[k].outcome = "failed"
           /\ cy.result.error = Settled[cy.resp].error
           /\ cy.result.error # NoError
           /\ cy.result.error = ErrGeneric => cy.lastError = NoError

\* all three strategies failed, the direct request with a body that is too
\* short
C9_Witness ==
  \E c \in CycleIds :
    /\ cycles[c].pc = "returned"
    /\ ~cycles[c].result.ok
    /\ Len(cycles[c].log) = 3
    /\ cycles[c].resp = "short"
    /\ cycles[c].result.error = ErrEmpty

\* C10 as stated: a strategy succeeds exactly when its response has a success
\* status and a body of at least 10 characters.
C10_SuccessIffLongEnough ==
  \A c \in CycleIds :
    (InFlight(c) /\ cycles[c].resp # NoResponse) =>
       ((cycles[c].pc = "returned" /\ cycles[c].result.ok)
          <=> cycles[c].resp \in LongEnoughIds)

\* C10 amended: a strategy succeeds, and ends the chain, exactly when its
\* response has a success status and a body of at least 10 characters that
\* holds at least two non-blank lines.
C10_SuccessIffTwoLines ==
  \A c \in CycleIds :
    LET cy == cycles[c] IN
    (InFlight(c) /\ cy.resp # NoResponse) =>
       /\ (cy.pc = "returned" /\ cy.result.ok) <=> cy.resp \in TwoLineIds
       /\ cy.resp \in TwoLineIds => LastAttempt(cy).outcome = "ok"
       /\ cy.resp \notin TwoLineIds => LastAttempt(cy).outcome # "ok"

\* the relay answered a plausible body: the cycle has returned after one
\* attempt
C10_Witness ==
  \E c \in CycleIds :
    /\ cycles[c].pc = "returned"
    /\ cycles[c].result.ok
    /\ cycles[c].resp \in TwoLineIds
    /\ Len(cycles[c].log) = 1

(***************************************************************************)
(* The predicates of the filter state, as the properties state them.       *)
(***************************************************************************)
\* sub occurs in s as a run of consecutive characters
Contains(s, sub) ==
  \E a \in 0..Len(s) : \E b \in a..Len(s) : SubSeq(s, a + 1, b) = sub

\* the search text is empty, or occurs in the IP as written, or occurs in the
\* ISP or the Domain when case is ignored
SearchPredicate(item, q) ==
  \/ q = <<>>
  \/ Contains(item.IP, q)
  \/ Contains(ToLowerCase(item.ISP), ToLowerCase(q))
  \/ Contains(ToLowerCase(item.Domain), ToLowerCase(q))

\* the category is "all", or the Action is the category when case is ignored
CategoryPredicate(item, f) ==
  \/ f = "all"
  \/ (f = "blocked" /\ ToLowerCase(item.Action) = Blocked)
  \/ (f = "alerted" /\ ToLowerCase(item.Action) = Alerted)

\* filteredData holds records of data only, each satisfying both predicates
\* of the current filter state
FilteredWithinFilters ==
  \A i \in 1..Len(filteredData) :
    /\ \E j \in 1..Len(data) : data[j] = filteredData[i]
    /\ SearchPredicate(filteredData[i], searchQuery)
    /\ CategoryPredicate(filteredData[i], filter)

\* C11: in every state shown to the user filteredData is a subset of data and
\* each of its records satisfies the search predicate and the category
\* predicate of the current filter state, the state right after a successful
\* cycle has published a snapshot included. (The render between a click or a
\* keystroke and its filter effect is not counted: that effect runs before
\* the browser paints.)
C11_FilteredWithinFilters ==
  [][(~effectPending' \/ \E c \in CycleIds : Completes(c)) =>
        FilteredWithinFilters']_vars

\* the positions of d whose record satisfies both predicates
KeptIndices(d, q, f) ==
  {i \in 1..Len(d) : SearchPredicate(d[i], q) /\ CategoryPredicate(d[i], f)}

\* fd holds the records of d at the positions K, in the order of d
IsSelection(fd, d, K) ==
  /\ Len(fd) = Cardinality(K)
  /\ \A i \in K : fd[Cardinality({j \in K : j <= i})] = d[i]

Blo == <<"b","l","o">>

\* C12: once the filter effect has run, filteredData holds, in snapshot order,
\* exactly the records of data that satisfy both the search predicate and the
\* category predicate. With the search text "blo" and the category "all" the
\* records shown are those whose ISP or Domain contains "blo" in any case or
\* whose IP contains "blo" as written; a record whose Action is neither token
\* is shown only under "all".
C12_ProjectionRetainsBoth ==
  ~effectPending =>
     /\ IsSelection(filteredData, data, KeptIndices(data, searchQuery, filter))
     /\ (searchQuery = Blo /\ filter = "all") =>
          \A j \in 1..Len(data) :
             (\E i \in 1..Len(filteredData) : filteredData[i] = data[j])
               <=> \/ Contains(data[j].IP, Blo)
                   \/ Contains(ToLowerCase(data[j].ISP), Blo)
                   \/ Contains(ToLowerCase(data[j].Domain), Blo)
     /\ \A i \in 1..Len(filteredData) :
          ToLowerCase(filteredData[i].Action) \notin {Blocked, Alerted} => filter = "all"

\* the projection has run for "blo" under "all" on a snapshot holding a
\* record with the IP "Blo" and one with the ISP "Blox": only the second is
\* shown
C12_Witness ==
  /\ ~effectPending
  /\ searchQuery = Blo
  /\ filter = "all"
  /\ Len(data) = 2
  /\ data[1].IP = <<"B","l","o">>
  /\ data[2].ISP = <<"B","l","o","x">>
  /\ filteredData = <<data[2]>>

\* the number of records of d whose Action is the token when case is ignored
CountAction(d, token) ==
  Cardinality({i \in 1..Len(d) : ToLowerCase(d[i].Action) = token})

\* C13: the aggregates are those of the unfiltered snapshot: total is the
\* number of records of data, blocked and alerted the numbers of records
\* whose Action is the token (case ignored), highRisk the number of records
\* with a score of at least 75; blocked + alerted <= total, records with
\* another Action being counted in total only. The four are thus determined
\* by data alone, and a change of the search text, of the category or of the
\* filtered view leaves data, hence the four, unchanged.
C13_AggregatesOverSnapshot ==
  /\ [](/\ stats.total = Len(data)
        /\ stats.blocked = CountAction(data, Blocked)
        /\ stats.alerted = CountAction(data, Alerted)
        /\ stats.highRisk =
             Cardinality({i \in 1..Len(data) : data[i].AbuseConfidenceScore >= 75})
        /\ stats.blocked + stats.alerted <= stats.total)
  /\ [][(searchQuery' # searchQuery \/ filter' # filter
           \/ filteredData' # filteredData) => data' = data]_vars

\* the category "blocked" hides one of two records, whose Action is neither
\* token: it is still counted in total
C13_Witness ==
  /\ ~effectPending
  /\ filter = "blocked"
  /\ Len(data) = 2
  /\ Len(filteredData) = 1
  /\ \E i \in 1..Len(data) : ToLowerCase(data[i].Action) \notin {Blocked, Alerted}
  /\ stats.total = 2
  /\ stats.blocked = 1
  /\ stats.alerted = 0

\* the positions of d whose score satisfies the comparison with 75
ScoreIs(d, v) == {i \in 1..Len(d) : d[i].AbuseConfidenceScore = v}
ScoreAbove(d, v) == {i \in 1..Len(d) : d[i].AbuseConfidenceScore > v}

Occurs(rec, seq) == \E k \in 1..Len(seq) : seq[k] = rec

\* C17: a record with the score 75 is counted in stats.highRisk and is not
\* export-eligible; a record with the score 76 is both; the export-eligible
\* records are a subset of the records counted in highRisk.
C17_ThresholdAsymmetry ==
  LET eligible == highRiskIPs(data) IN
  /\ stats.highRisk = Cardinality(ScoreAbove(data, 75)) + Cardinality(ScoreIs(data, 75))
  /\ Len(eligible) = Cardinality(ScoreAbove(data, 75))
  /\ \A i \in ScoreIs(data, 75) :
       /\ ~Occurs(data[i], eligible)
       /\ ~Occurs(data[i], uniqueHighRiskIPs(data))
  /\ \A i \in ScoreIs(data, 76) : Occurs(data[i], eligible)
  /\ \A k \in 1..Len(eligible) :
       /\ Occurs(eligible[k], data)
       /\ eligible[k].AbuseConfidenceScore >= 75
  /\ Len(eligible) <= stats.highRisk

\* the snapshot holds a record with the score 75 and one with 76: both are
\* counted in highRisk, and the download started on it targets the second only
C17_Witness ==
  /\ Len(data) = 2
  /\ data[1].AbuseConfidenceScore = 75
  /\ data[2].AbuseConfidenceScore = 76
  /\ stats.highRisk = 2
  /\ highRiskIPs(data) = <<data[2]>>
  /\ download.pc = "render"
  /\ download.targets = <<data[2].IP>>

\* the first position of d that holds the IP with a score above 75
FirstEligible(d, ip) ==
  CHOOSE i \in ScoreAbove(d, 75) :
    /\ d[i].IP = ip
    /\ \A j \in ScoreAbove(d, 75) : d[j].IP = ip => i <= j

\* C19: uniqueHighRiskIPs holds no two records with the same IP, only records
\* with a score above 75, exactly one record for every IP that has a record
\* with a score above 75 in data, and that record is the first such record of
\* the IP in snapshot order; the targets of a running export are its IPs.
C19_UniqueTargets ==
  LET u == uniqueHighRiskIPs(data) IN
  /\ \A a, b \in 1..Len(u) : a # b => u[a].IP # u[b].IP
  /\ \A a \in 1..Len(u) : u[a].AbuseConfidenceScore > 75
  /\ \A i \in ScoreAbove(data, 75) :
       Cardinality({a \in 1..Len(u) : u[a].IP = data[i].IP}) = 1
  /\ \A a \in 1..Len(u) : u[a] = data[FirstEligible(data, u[a].IP)]
  /\ \A ex \in {download, ppt} :
       ex.pc # "idle" =>
         /\ Len(ex.targets) = Len(u)
         /\ \A a \in 1..Len(u) : ex.targets[a] = u[a].IP

\* two records above 75 share an IP: the first is the only target, and the
\* download started on the snapshot renders one card
C19_Witness ==
  /\ Len(data) = 2
  /\ data[1].IP = data[2].IP
  /\ data[1] # data[2]
  /\ data[1].AbuseConfidenceScore > 75
  /\ data[2].AbuseConfidenceScore > 75
  /\ uniqueHighRiskIPs(data) = <<data[1]>>
  /\ download.pc = "render"
  /\ download.targets = <<data[1].IP>>

\* the positions of the line that hold the character
PositionsOf(line, ch) == {i \in 1..Len(line) : line[i] = ch}

\* position i lies inside quotes: an odd number of quote characters precede it
InsideQuotes(line, i) ==
  Cardinality({j \in PositionsOf(line, "\"") : j < i}) % 2 = 1

RECURSIVE CountIn(_, _)
\* occurrences of the character in the fields
CountIn(fields, ch) ==
  IF fields = <<>> THEN 0
  ELSE Cardinality(PositionsOf(Head(fields), ch)) + CountIn(Tail(fields), ch)

Trimmed(field) ==
  field = <<>> \/ (~IsSpace(field[1]) /\ ~IsSpace(field[Len(field)]))

\* C16: for every line, parseCSVLine returns 1 + (number of commas outside
\* quotes) fields; a quote character is never part of a field; a comma inside
\* quotes is kept as field text and the other characters are kept too; every
\* field is free of leading and trailing whitespace.
C16_QuoteAwareSplit ==
  scan.pc = "returned" =>
    LET line == scan.line
        values == scan.values
        commas == PositionsOf(line, ",")
        outside == {i \in commas : ~InsideQuotes(line, i)}
    IN  /\ Len(values) = 1 + Cardinality(outside)
        /\ CountIn(values, "\"") = 0
        /\ CountIn(values, ",") = Cardinality(commas \ outside)
        /\ CountIn(values, "a") = Cardinality(PositionsOf(line, "a"))
        /\ \A k \in 1..Len(values) : Trimmed(values[k])

\* a quoted comma followed by a separator: two fields, the first holding the
\* comma
C16_Witness ==
  /\ scan.pc = "returned"
  /\ scan.line = <<"\"", ",", "\"", ",">>
  /\ scan.values = << <<",">>, <<>> >>

\* the line holds a character that is not whitespace
HasText(line) == \E i \in 1..Len(line) : ~IsSpace(line[i])

\* the number of fields of a line: one more than its commas outside quotes
FieldCount(line) ==
  1 + Cardinality({i \in PositionsOf(line, ",") : ~InsideQuotes(line, i)})

HasMinFields(line) == FieldCount(line) >= 11

\* the record a row yields when it is the only row under a header
RecordAlone(line) == ParseBody(JoinLines(<<HeaderLine, line>>))[1]

TextAt(values, k) == IF k + 1 <= Len(values) THEN values[k + 1] ELSE <<>>

\* the text of column k, or the default when the text is absent or empty
TextOr(values, k, dflt) ==
  IF TextAt(values, k) = <<>> THEN dflt ELSE TextAt(values, k)

AllDigits(t) == t # <<>> /\ \A i \in 1..Len(t) : IsDigit(t[i])

RECURSIVE Decimal(_)
\* the number a string of digits denotes
Decimal(t) ==
  IF t = <<>> THEN 0 ELSE 10 * Decimal(SubSeq(t, 1, Len(t) - 1)) + DigitVal(t[Len(t)])

\* the number of column k: that of its digits, 0 when it is empty or starts
\* with no digit
NumberAt(values, k) ==
  IF AllDigits(TextAt(values, k)) THEN Decimal(TextAt(values, k)) ELSE 0

\* the numeric columns used as inputs are strings of digits, empty, or hold no digit
PlainNumber(t) == AllDigits(t) \/ \A i \in 1..Len(t) : ~IsDigit(t[i])

\* the record is the positional image of the row, with dflt for an absent
\* country, ISP or domain and "-" for an absent usage type, ASN or city
MappedAs(rec, values, dflt) ==
  /\ rec.IP = TextAt(values, 0)
  /\ rec.Country = TextOr(values, 1, dflt)
  /\ rec.ISP = TextOr(values, 2, dflt)
  /\ rec.Domain = TextOr(values, 3, dflt)
  /\ rec.AbuseConfidenceScore = NumberAt(values, 4)
  /\ rec.TotalReports = NumberAt(values, 5)
  /\ rec.LastReportedAt = TextAt(values, 6)
  /\ rec.JenisAktivitas = TextAt(values, 8)
  /\ rec.Count = NumberAt(values, 9)
  /\ rec.Action = TextAt(values, 10)
  /\ rec.UsageType = TextOr(values, 11, Dash)
  /\ rec.ASN = TextOr(values, 12, Dash)
  /\ rec.City = TextOr(values, 13, Dash)

\* every record of a parsed body is the image, under the default, of the
\* fields of its row
RecordsMappedAs(dflt) ==
  (parse.pc = "returned" /\ parse.result.ok) =>
    LET long == SelectSeq(Tail(SelectSeq(parse.src, HasText)), HasMinFields)
    IN  /\ Len(parse.result.data) = Len(long)
        /\ \A k \in 1..Len(long) :
             LET values == parseCSVLine(long[k]) IN
             /\ \A c \in {4, 5, 9} : PlainNumber(TextAt(values, c))
             /\ MappedAs(parse.result.data[k], values, dflt)

\* C15 as stated: the mapping is positional and an absent country, ISP or
\* domain, like an absent usage type, ASN or city, is "-" in the record.
C15_DefaultsAllDash == RecordsMappedAs(Dash)

\* C15 amended: the mapping is positional (0 IP, 1 country, 2 ISP, 3 domain,
\* 4 score, 5 total reports, 6 last reported, 8 activity kind, 9 count,
\* 10 action, 11 usage type, 12 ASN, 13 city; 7 unused); an absent or empty
\* usage type, ASN or city is "-", an absent or empty country, ISP or domain
\* is the empty string, like every other text column; a numeric column
\* holds the number of its digits, 0 when it holds none.
C15_DefaultsByColumn == RecordsMappedAs(<<>>)

\* a row of 11 fields with only the IP filled in has been parsed: country, ISP
\* and domain are empty, usage type, ASN and city are "-"
C15_Witness ==
  /\ parse.pc = "returned"
  /\ parse.src = <<HeaderLine, RowBare, RowTail>>
  /\ parse.result.ok
  /\ Len(parse.result.data) = 2
  /\ parse.result.data[1].IP = <<"3",".","3">>
  /\ parse.result.data[1].Country = <<>>
  /\ parse.result.data[1].ISP = <<>>
  /\ parse.result.data[1].Domain = <<>>
  /\ parse.result.data[1].City = Dash
  /\ parse.result.data[2].JenisAktivitas = <<"k">>
  /\ parse.result.data[2].TotalReports = 12
  /\ parse.result.data[2].ASN = Dash

\* C18: the snapshot is the empty sequence or the whole record sequence
\* parsed from the body of one strategy of one successful cycle, never a part
\* of it and never records of two bodies; data changes only at the
\* completion of a cycle whose fetch and parse are over, to that cycle's
\* records.
C18_AtomicPublication ==
  /\ [](\/ data = <<>>
        \/ /\ \E id \in TwoLineIds : data = Parsed[id]
           /\ \E c \in CycleIds :
                Done(c) /\ cycles[c].result.ok /\ data = cycles[c].result.data)
  /\ [][data' # data =>
          \E c \in CycleIds :
             /\ Completes(c)
             /\ cycles[c].result.ok
             /\ LastAttempt(cycles[c]).outcome = "ok"
             /\ cycles[c].result.data = Parsed[cycles[c].resp]
             /\ data' = cycles[c].result.data]_vars

\* a second cycle has replaced the one record of the first body by the two
\* records of the second
C18_Witness ==
  /\ Done(1) /\ Done(2)
  /\ cycles[1].result.data = Parsed["bodyA"]
  /\ cycles[2].result.data = Parsed["bodyB"]
  /\ lastDone = 2
  /\ data = Parsed["bodyB"]
  /\ Len(data) = 2

\* the export is inside a render-and-emit step: html2canvas is rendering a
\* card for it, or its deck is being written
Rendering(ex) == ex.pc \in {"render", "write"}

\* C20: at no time are render-and-emit steps of two artifacts in progress
\* together, whatever the clicks on the two export buttons, a click on one
\* while the other export runs included.
C20_RendersSequential == ~(Rendering(download) /\ Rendering(ppt))

\* the call of handleDownloadAll that ended last ran to its success message
DownloadSucceeded == download.pc = "idle" /\ download.outcome = "success"

\* C21: a download that completes without error has emitted one file for
\* every record of uniqueHighRiskIPs of the snapshot, the number its messages
\* announce, whatever search text and category are active and whichever
\* cards are on screen.
C21_ExportCoversSnapshot ==
  DownloadSucceeded =>
    /\ Len(download.targets) = Len(uniqueHighRiskIPs(data))
    /\ download.emitted = Len(download.targets)

\* the state RetryInit starts from, as Spec reaches it: the mount cycle awaits
\* its first response and the periodic cycle started after it has failed
RetryInitReached ==
  /\ cycles[1] = NewCycle("mount", TRUE)
  /\ Done(2) /\ cycles[2].kind = "periodic" /\ ~cycles[2].result.ok
  /\ error = LoadErrorMessage /\ loading
  /\ data = <<>> /\ filteredData = <<>> /\ lastUpdated = NoDate
  /\ mounted /\ interval /\ autoRefresh /\ ~effectPending
  /\ clock = 2

\* C22: whenever a cycle started by mount, manual refresh or Retry is in
\* flight the loading flag is set, in every interleaving, a Retry clicked
\* while an earlier loading-surfacing cycle is in flight included.
C22_LoadingTracksCycles ==
  \A c \in CycleIds :
    (InFlight(c) /\ cycles[c].kind \in {"mount", "manual", "retry"}) => loading

\* C23: every request settling, each cycle that is started completes, with
\* success or failure, after at most three strategy attempts; once the
\* component is mounted and no cycle is in flight the loading flag is clear.
C23_CyclesTerminate ==
  /\ \A c \in CycleIds : InFlight(c) ~> Done(c)
  /\ [](\A c \in CycleIds :
          /\ Len(cycles[c].log) <= Len(PROXY_URLS)
          /\ cycles[c].idx <= Len(PROXY_URLS))
  /\ []((mounted /\ \A c \in CycleIds : ~InFlight(c)) => ~loading)

\* the mount cycle and a cycle started by hand have both completed, the
\* second with failure after its three attempts: loading is clear
C23_Witness ==
  /\ Done(1) /\ Done(2)
  /\ cycles[2].kind \in {"manual", "retry"}
  /\ ~cycles[2].result.ok
  /\ cycles[2].result.error = ErrHttp
  /\ lastDone = 2
  /\ ~loading

====
